---- MODULE Spec2Model ----
(***************************************************************************)
(* Model of src/tracing_result.rs: the Result type, its Try impl (branch,  *)
(* from_output) and the two FromResidual impls (the default one and the    *)
(* one specialized on TracedMarker that calls Traced::trace with the       *)
(* caller's Location).                                                     *)
(*                                                                         *)
(* The program that drives them is a chain of `depth` nested fallible      *)
(* functions, all returning Result<_, F>.  The function at level L runs    *)
(* operations 1..NumOps in sequence and applies `?` to each result; for    *)
(* L > 1 its first operation is the call of the function at level L - 1.   *)
(* `?` is  match Try::branch(x) { Continue(v) => v,                        *)
(*                                Break(r) => return from_residual(r) }.   *)
(***************************************************************************)
EXTENDS Integers, Sequences, FiniteSets, TLC

\* ---------------------------------------------------------------- bounds
MaxDepth == 3
NumOps == 2

\* ---------------------------------------------------------------- values
Levels == 1..MaxDepth
OpIds == 1..NumOps

\* success payloads
Values == {"unit", "v"}

\* the strings a leaf operation may fail with
Strings == {<<"E">>, <<"E", "!">>}

\* the types a raw failure may have: both are Into<String>
RawTypes == {"&str", "String"}

RawErrors == [type : RawTypes, s : Strings]

\* the declared error type F of the functions:
\*   "String"      only From                       (std String)
\*   "TracedOnly"  From + Traced, no TracedMarker
\*   "NewString"   From + Traced + TracedMarker    (the documented example)
\*   "FlakyString" From + Traced + TracedMarker, its trace hook may panic
ErrorTypes == {"String", "TracedOnly", "NewString", "FlakyString"}

ImplFrom(F) == F \in ErrorTypes

ImplTraced(F) == F \in {"TracedOnly", "NewString", "FlakyString"}

ImplTracedMarker(F) == F \in {"NewString", "FlakyString"}

NoErr == [type |-> "none", s |-> <<>>]
NoRes == [tag |-> "None"]
NoLoc == [file |-> "none", line |-> 0, col |-> 0]

\* pub enum Result<T, E> { Ok(T), Err(E) }
Ok(t) == [tag |-> "Ok", val |-> t]

Err(e) == [tag |-> "Err", val |-> e]

\* ---------------------------------------------------------------- Try
\* variant: the success value wrapped in the wrong variant
from_outputErr(output) == Err(output)

from_output(output) == Ok(output)

\* variant: every result breaks, the residual keeping its variant
branchBreakAll(self) == [tag |-> "Break", val |-> self]

branch(self) ==
    IF self.tag = "Ok"
    THEN [tag |-> "Continue", val |-> self.val]
    ELSE [tag |-> "Break", val |-> Err(self.val)]

\* ---------------------------------------------------------------- From
\* F::from(e): the reflexive impl From<T> for T returns e itself; otherwise
\* impl<T: Into<String>> From<T> for F wraps s.into()
From(F, e) ==
    IF e.type = F THEN e ELSE [type |-> F, s |-> e.s]

\* ---------------------------------------------------------------- Traced
\* the outcomes of f.trace(location): the documented hook pushes '!' and
\* ignores the location; the hook of FlakyString may also panic
\* variant: a hook that leaves the value alone
traceNoop(f, location) == {[panic |-> FALSE, f |-> f]}

trace(f, location) ==
    {[panic |-> FALSE, f |-> [f EXCEPT !.s = Append(@, "!")]]}
    \cup (IF f.type = "FlakyString" THEN {[panic |-> TRUE, f |-> f]} ELSE {})

\* ---------------------------------------------------------------- dispatch
\* which FromResidual impl the compiler selects for Result<T, F>
\* variant: the base impl wins whenever it applies
DispatchBaseFirst(F) ==
    IF ImplFrom(F) THEN "default" ELSE "specialized"

Dispatch(F) ==
    IF ImplFrom(F) /\ ImplTracedMarker(F) THEN "specialized" ELSE "default"

\* ---------------------------------------------------------------- locations
\* the location of the `?` applied to operation o of the function at level l
CallSite(l, o) == [file |-> "caller", line |-> l, col |-> o]

\* the location inside leaf operation o of level l where the Err is built
LeafSite(l, o) == [file |-> "leaf", line |-> l, col |-> o]

\* Location::caller() inside a #[track_caller] from_residual called from the
\* `?` at callSite
\* variant: the location where the failure was created
LocationCallerOrigin(callSite, createdAt) == createdAt

LocationCaller(callSite, createdAt) == callSite

\* ---------------------------------------------------------------- state
VARIABLES
    F,          \* the declared error type of every function of the chain
    depth,      \* number of nested functions
    cur,        \* level of the running function
    op,         \* op[l]: the operation the function at level l is at
    pc,         \* position of the running function
    res,        \* the Result `?` is applied to
    cf,         \* the ControlFlow branch returned
    residual,   \* the argument of from_residual
    site,       \* the call site of the running from_residual
    f,          \* the local `f` of the specialized from_residual
    ret,        \* the Result the running function returns
    final,      \* the Result the outermost function returned
    lastVal,    \* the value of the last `?` expression
    executed,   \* the operations <<level, op>> that have run
    failed,     \* the operations <<level, op>> whose result was an Err
    origErr,    \* the raw failure a leaf operation produced
    originSite, \* where that failure was created
    pathLog,    \* one entry per from_residual call: which impl ran
    convLog,    \* one entry per From::from call
    traceLog    \* one entry per trace call

vars == <<F, depth, cur, op, pc, res, cf, residual, site, f, ret, final,
          lastVal, executed, failed, origErr, originSite, pathLog, convLog, traceLog>>

origin == <<origErr, originSite>>

Init ==
    /\ F \in ErrorTypes
    /\ depth \in Levels
    /\ cur = depth
    /\ op = [l \in Levels |-> 1]
    /\ pc = "run"
    /\ res = NoRes
    /\ cf = NoRes
    /\ residual = NoRes
    /\ site = NoLoc
    /\ f = NoErr
    /\ ret = NoRes
    /\ final = NoRes
    /\ lastVal = "unit"
    /\ executed = {}
    /\ failed = {}
    /\ origErr = NoErr
    /\ originSite = NoLoc
    /\ pathLog = <<>>
    /\ convLog = <<>>
    /\ traceLog = <<>>

IsCall(l, o) == l > 1 /\ o = 1

\* the function at level cur calls the function at level cur - 1
Call ==
    /\ pc = "run"
    /\ op[cur] <= NumOps
    /\ IsCall(cur, op[cur])
    /\ executed' = executed \cup {<<cur, op[cur]>>}
    /\ cur' = cur - 1
    /\ op' = [op EXCEPT ![cur - 1] = 1]
    /\ pc' = "run"
    /\ UNCHANGED <<F, depth, res, cf, residual, site, f, ret, final, lastVal,
                   failed, origErr, originSite, pathLog, convLog, traceLog>>

\* a leaf operation runs and returns Ok(v) or Err(e)
LeafOp ==
    /\ pc = "run"
    /\ op[cur] <= NumOps
    /\ ~IsCall(cur, op[cur])
    /\ executed' = executed \cup {<<cur, op[cur]>>}
    /\ \/ \E v \in Values :
            /\ res' = Ok(v)
            /\ UNCHANGED <<origin, failed>>
       \/ \E e \in RawErrors :
            /\ res' = Err(e)
            /\ failed' = failed \cup {<<cur, op[cur]>>}
            /\ origErr' = e
            /\ originSite' = LeafSite(cur, op[cur])
    /\ pc' = "branch"
    /\ UNCHANGED <<F, depth, cur, op, cf, residual, site, f, ret, final,
                   lastVal, pathLog, convLog, traceLog>>

\* every operation of the function succeeded: it returns from_output(v)
TailOk ==
    /\ pc = "run"
    /\ op[cur] > NumOps
    /\ ret' = from_output(lastVal)
    /\ pc' = "return"
    /\ UNCHANGED <<F, depth, cur, op, res, cf, residual, site, f, final,
                   lastVal, executed, failed, origErr, originSite, pathLog, convLog,
                   traceLog>>

\* `?` calls Try::branch on the result
Branch ==
    /\ pc = "branch"
    /\ cf' = branch(res)
    /\ pc' = "matched"
    /\ UNCHANGED <<F, depth, cur, op, res, residual, site, f, ret, final,
                   lastVal, executed, failed, origErr, originSite, pathLog, convLog,
                   traceLog>>

\* variant: the Break arm falls through instead of returning
ContinueAlways ==
    /\ pc = "matched"
    /\ lastVal' = IF cf.tag = "Continue" THEN cf.val ELSE "unit"
    /\ op' = [op EXCEPT ![cur] = @ + 1]
    /\ pc' = "run"
    /\ UNCHANGED <<F, depth, cur, res, cf, residual, site, f, ret, final,
                   executed, failed, origErr, originSite, pathLog, convLog,
                   traceLog>>

\* ControlFlow::Continue(v) => v : the function goes on to its next operation
Continue ==
    /\ pc = "matched"
    /\ cf.tag = "Continue"
    /\ lastVal' = cf.val
    /\ op' = [op EXCEPT ![cur] = @ + 1]
    /\ pc' = "run"
    /\ UNCHANGED <<F, depth, cur, res, cf, residual, site, f, ret, final,
                   executed, failed, origErr, originSite, pathLog, convLog, traceLog>>

\* ControlFlow::Break(r) => return FromResidual::from_residual(r)
Break ==
    /\ pc = "matched"
    /\ cf.tag = "Break"
    /\ residual' = cf.val
    /\ site' = CallSite(cur, op[cur])
    /\ pc' = Dispatch(F)
    /\ pathLog' = Append(pathLog, [level |-> cur, op |-> op[cur],
                                   path |-> Dispatch(F)])
    /\ UNCHANGED <<F, depth, cur, op, res, cf, f, ret, final, lastVal,
                   executed, failed, origErr, originSite, convLog, traceLog>>

\* variant: the base impl marks the converted value as the tracing impl does
FromResidualDefaultTracing ==
    /\ pc = "default"
    /\ ret' = Err([From(F, residual.val) EXCEPT !.s = Append(@, "!")])
    /\ convLog' = Append(convLog, [hop |-> Len(pathLog), arg |-> residual.val])
    /\ pc' = "return"
    /\ UNCHANGED <<F, depth, cur, op, res, cf, residual, site, f, final,
                   lastVal, executed, failed, origErr, originSite, pathLog,
                   traceLog>>

\* default fn from_residual
FromResidualDefault ==
    /\ pc = "default"
    /\ IF residual.tag = "Ok"
       THEN /\ pc' = "unreachable"
            /\ UNCHANGED <<ret, convLog>>
       ELSE /\ ret' = Err(From(F, residual.val))
            /\ convLog' = Append(convLog, [hop |-> Len(pathLog),
                                           arg |-> residual.val])
            /\ pc' = "return"
    /\ UNCHANGED <<F, depth, cur, op, res, cf, residual, site, f, final,
                   lastVal, executed, failed, origErr, originSite, pathLog, traceLog>>

\* specialized from_residual:  let mut f = F::from(e);
FromResidualFrom ==
    /\ pc = "specialized"
    /\ IF residual.tag = "Ok"
       THEN /\ pc' = "unreachable"
            /\ UNCHANGED <<f, convLog>>
       ELSE /\ f' = From(F, residual.val)
            /\ convLog' = Append(convLog, [hop |-> Len(pathLog),
                                           arg |-> residual.val])
            /\ pc' = "spec_trace"
    /\ UNCHANGED <<F, depth, cur, op, res, cf, residual, site, ret, final,
                   lastVal, executed, failed, origErr, originSite, pathLog, traceLog>>

\* variant: a panic of the hook is caught and the value returned all the same
FromResidualTraceCaught ==
    /\ pc = "spec_trace"
    /\ \E o \in trace(f, LocationCaller(site, originSite)) :
        /\ traceLog' = Append(traceLog,
                [hop |-> Len(pathLog), level |-> cur,
                 loc |-> LocationCaller(site, originSite),
                 arg |-> f, out |-> o.f, panic |-> o.panic])
        /\ f' = o.f
        /\ pc' = "spec_ret"
    /\ UNCHANGED <<F, depth, cur, op, res, cf, residual, site, ret, final,
                   lastVal, executed, failed, origErr, originSite, pathLog,
                   convLog>>

\* specialized from_residual:  f.trace(Location::caller());
FromResidualTrace ==
    /\ pc = "spec_trace"
    /\ \E o \in trace(f, LocationCaller(site, originSite)) :
        /\ traceLog' = Append(traceLog,
                [hop |-> Len(pathLog), level |-> cur,
                 loc |-> LocationCaller(site, originSite),
                 arg |-> f, out |-> o.f, panic |-> o.panic])
        /\ f' = o.f
        /\ pc' = IF o.panic THEN "panicked" ELSE "spec_ret"
    /\ UNCHANGED <<F, depth, cur, op, res, cf, residual, site, ret, final,
                   lastVal, executed, failed, origErr, originSite, pathLog, convLog>>

\* variant: the value converted before the hook ran is returned
FromResidualErrUntraced ==
    /\ pc = "spec_ret"
    /\ ret' = Err(From(F, residual.val))
    /\ pc' = "return"
    /\ UNCHANGED <<F, depth, cur, op, res, cf, residual, site, f, final,
                   lastVal, executed, failed, origErr, originSite, pathLog,
                   convLog, traceLog>>

\* specialized from_residual:  Err(f)
FromResidualErr ==
    /\ pc = "spec_ret"
    /\ ret' = Err(f)
    /\ pc' = "return"
    /\ UNCHANGED <<F, depth, cur, op, res, cf, residual, site, f, final,
                   lastVal, executed, failed, origErr, originSite, pathLog, convLog,
                   traceLog>>

\* the running function returns ret to its caller, whose `?` receives it
Return ==
    /\ pc = "return"
    /\ IF cur = depth
       THEN /\ final' = ret
            /\ pc' = "done"
            /\ UNCHANGED <<cur, res, failed>>
       ELSE /\ cur' = cur + 1
            /\ res' = ret
            /\ failed' = IF ret.tag = "Err"
                         THEN failed \cup {<<cur + 1, op[cur + 1]>>}
                         ELSE failed
            /\ pc' = "branch"
            /\ UNCHANGED final
    /\ UNCHANGED <<F, depth, op, cf, residual, site, f, ret, lastVal,
                   executed, origErr, originSite, pathLog, convLog, traceLog>>

Next ==
    \/ Call
    \/ LeafOp
    \/ TailOk
    \/ Branch
    \/ Continue
    \/ Break
    \/ FromResidualDefault
    \/ FromResidualFrom
    \/ FromResidualTrace
    \/ FromResidualErr
    \/ Return

Spec == Init /\ [][Next]_vars

\* ================================================================ claims
Hop == Len(pathLog)

TracesOf(h) == {i \in DOMAIN traceLog : traceLog[i].hop = h}

ConvsOf(h) == {i \in DOMAIN convLog : convLog[i].hop = h}

LastTrace == traceLog[Len(traceLog)]

Qualifies(T) == ImplFrom(T) /\ ImplTracedMarker(T)

RECURSIVE Bangs(_)
Bangs(n) == IF n = 0 THEN <<>> ELSE Append(Bangs(n - 1), "!")

\* C1: for F: From<E> + TracedMarker, one from_residual call converts, then
\* calls trace exactly once on F::from(e) with the location of its own call
\* site (not the place the failure was created), then returns Err of the
\* traced value.
Thm_C1 ==
    Qualifies(F) =>
        /\ pc = "spec_trace" =>
            /\ TracesOf(Hop) = {}
            /\ Cardinality(ConvsOf(Hop)) = 1
            /\ f = From(F, residual.val)
        /\ pc = "spec_ret" =>
            /\ Cardinality(TracesOf(Hop)) = 1
            /\ LastTrace.hop = Hop
            /\ LastTrace.arg = From(F, residual.val)
            /\ LastTrace.loc = CallSite(cur, op[cur])
            /\ LastTrace.loc # originSite
            /\ f = LastTrace.out
        /\ (pc = "return" /\ ret.tag = "Err") =>
            /\ Cardinality(ConvsOf(Hop)) = 1
            /\ Cardinality(TracesOf(Hop)) = 1
            /\ LastTrace.hop = Hop
            /\ ret = Err(LastTrace.out)
        /\ (pc = "done" /\ Hop = 1) =>
            /\ Len(traceLog) = 1
            /\ Len(convLog) = 1
            /\ traceLog[1].arg = From(F, origErr)
            /\ traceLog[1].loc = CallSite(pathLog[1].level, pathLog[1].op)
            /\ traceLog[1].loc # originSite
            /\ final = Err(traceLog[1].out)

Wit_C1 ==
    /\ Qualifies(F)
    /\ pc = "done"
    /\ Hop = 1
    /\ Len(traceLog) = 1
    /\ final.tag = "Err"

\* C2: along nested boundaries converting into a tracing type, trace runs
\* once per hop, innermost hop first, each call with the location of its own
\* boundary, the locations pairwise distinct; three hops give three calls.
Thm_C2 ==
    Qualifies(F) =>
        /\ \A i \in DOMAIN traceLog :
            /\ traceLog[i].hop = i
            /\ traceLog[i].level = pathLog[i].level
            /\ traceLog[i].loc = CallSite(pathLog[i].level, pathLog[i].op)
        /\ \A i, j \in DOMAIN traceLog :
            i < j => /\ traceLog[i].level < traceLog[j].level
                     /\ traceLog[i].loc # traceLog[j].loc
        /\ (pc = "done" /\ final.tag = "Err") =>
            /\ Len(traceLog) = Hop
            /\ Hop = depth - originSite.line + 1
            /\ \A i \in DOMAIN traceLog :
                traceLog[i].level = originSite.line + i - 1

Wit_C2 ==
    /\ Qualifies(F)
    /\ pc = "done"
    /\ final.tag = "Err"
    /\ Len(traceLog) = 3
    /\ <<traceLog[1].level, traceLog[2].level, traceLog[3].level>> = <<1, 2, 3>>

\* C3: for F with From only, the base from_residual returns Err(F::from(e)),
\* never calls trace, records no location and changes nothing else.
Thm_C3 ==
    /\ [](~ImplTraced(F) => traceLog = <<>> /\ pc # "spec_trace")
    /\ [][(~ImplTraced(F) /\ pc = "default") =>
            /\ ret' = [tag |-> "Err",
                       val |-> IF residual.val.type = F THEN residual.val
                               ELSE [type |-> F, s |-> residual.val.s]]
            /\ pc' = "return"
            /\ UNCHANGED <<F, depth, cur, op, res, cf, residual, site, f,
                           final, lastVal, executed, failed, origErr,
                           originSite, pathLog, traceLog>>]_vars

Wit_C3 ==
    /\ ~ImplTraced(F)
    /\ pc = "done"
    /\ final.tag = "Err"
    /\ final.val = [type |-> F, s |-> origErr.s]
    /\ Hop > 1

\* C4: when F qualifies for both impls, every propagation runs the tracing
\* impl, never the base one; each propagation runs one impl, and all
\* propagations of a run the same one.
Thm_C4 ==
    /\ Qualifies(F) =>
        /\ pc # "default"
        /\ \A i \in DOMAIN pathLog : pathLog[i].path = "specialized"
        /\ \A i \in DOMAIN convLog : Cardinality(TracesOf(convLog[i].hop)) <= 1
        /\ (pc = "return" /\ ret.tag = "Err") =>
                Cardinality(TracesOf(Hop)) = 1
    /\ \A i \in DOMAIN convLog : convLog[i].hop = i
    /\ Len(convLog) <= Hop
    /\ \A i, j \in DOMAIN pathLog : pathLog[i].path = pathLog[j].path

Wit_C4 ==
    /\ Qualifies(F)
    /\ pc = "return"
    /\ ret.tag = "Err"
    /\ Hop = 2
    /\ pathLog[1].path = "specialized"
    /\ pathLog[2].path = "specialized"

\* C5: if F implements Traced, every propagation into F runs the tracing
\* impl.
Claim_C5 ==
    ImplTraced(F) =>
        /\ pc # "default"
        /\ \A i \in DOMAIN pathLog : pathLog[i].path = "specialized"

\* C6: once operation k of a function returns Err, its operations after k
\* never run: branch yields Break for it and the function returns; branch
\* yields Continue only for Ok.
Thm_C6 ==
    /\ \A lk \in failed : \A o \in OpIds :
            o > lk[2] => <<lk[1], o>> \notin executed
    /\ \A lk \in failed : op[lk[1]] = lk[2] /\ ~(pc = "run" /\ cur = lk[1])
    /\ (pc = "matched" /\ res.tag = "Err") => cf.tag = "Break"
    /\ (pc = "matched" /\ cf.tag = "Continue") => res.tag = "Ok"
    /\ (pc = "done" /\ failed # {}) => final.tag = "Err"

Wit_C6 ==
    /\ pc = "done"
    /\ \E lk \in failed : lk[2] < NumOps /\ <<lk[1], lk[2] + 1>> \notin executed
    /\ Cardinality(failed) > 1

\* C7: an Ok(v) propagates as Continue(v) with v unchanged, for every error
\* type, with no conversion and no trace; from_output(v) then branch is
\* Continue(v).
Thm_C7 ==
    /\ (pc = "matched" /\ res.tag = "Ok") =>
            /\ cf.tag = "Continue"
            /\ cf.val = res.val
    /\ (pc = "return" /\ failed = {}) => ret = [tag |-> "Ok", val |-> lastVal]
    /\ (pc = "matched" /\ failed = {} /\ IsCall(cur, op[cur])) =>
            cf = [tag |-> "Continue", val |-> lastVal]
    /\ failed = {} => pathLog = <<>> /\ convLog = <<>> /\ traceLog = <<>>
    /\ (pc = "done" /\ failed = {}) => final = [tag |-> "Ok", val |-> lastVal]

Wit_C7 ==
    /\ pc = "done"
    /\ ImplTracedMarker(F)
    /\ depth > 1
    /\ final = [tag |-> "Ok", val |-> "v"]

\* C8: with the documented NewString, a raw string that crosses N nested
\* functions ends as the original string followed by exactly N '!', N the
\* number of tracing hops, whichever raw type it started as.
Thm_C8 ==
    (F = "NewString" /\ pc = "done" /\ final.tag = "Err") =>
        /\ final.val = [type |-> "NewString",
                        s |-> origErr.s \o Bangs(depth - originSite.line + 1)]
        /\ Len(traceLog) = depth - originSite.line + 1
        /\ final.val.s = origErr.s \o Bangs(Len(traceLog))

Wit_C8 ==
    /\ F = "NewString"
    /\ pc = "done"
    /\ depth = 3
    /\ origErr = [type |-> "&str", s |-> <<"E", "!">>]
    /\ final.tag = "Err"
    /\ final.val.s = <<"E", "!", "!", "!", "!">>

\* C9: a panic of the trace hook is not caught: that from_residual returns
\* nothing, the outermost function returns nothing, and no hop or trace call
\* follows.
Thm_C9 ==
    \A i \in DOMAIN traceLog :
        traceLog[i].panic =>
            /\ i = Len(traceLog)
            /\ pc = "panicked"
            /\ final = NoRes
            /\ Hop = traceLog[i].hop
            /\ cur = traceLog[i].level
            /\ Len(convLog) = Hop
            /\ (ret.tag = "Err" => Hop > 1 /\ ret = residual)

Wit_C9 ==
    /\ pc = "panicked"
    /\ Len(traceLog) = 2
    /\ traceLog[2].panic
    /\ depth = 3

\* C10: the residual given to either from_residual holds Err: branch breaks
\* only on Err, and the unreachable!() arms are never reached.
Thm_C10 ==
    /\ pc # "unreachable"
    /\ (pc = "matched" /\ cf.tag = "Break") =>
            res.tag = "Err" /\ cf.val.tag = "Err"
    /\ pc \in {"default", "specialized", "spec_trace", "spec_ret"} =>
            residual.tag = "Err"
    /\ Hop > 0 => residual.tag = "Err"

Wit_C10 ==
    /\ pc \in {"default", "specialized"}
    /\ residual.tag = "Err"
    /\ Hop = 2

====
